---- MODULE Spec2Model ----
(***************************************************************************)
(* Model of the Genius artist pipeline: the matcher and resolver of        *)
(* apputil.py (Genius._norm, _pick_best_artist, get_artist, get_artists),  *)
(* the cached batch fetcher of app.py (cached_get_artist, fetch_batch,     *)
(* clean_artist_list, the single-lookup path) and the dataset builder of   *)
(* build_artist_dataset.py (read_artists, _worker, main).                  *)
(*                                                                         *)
(* Python strings are sequences of one-character strings.  Python values   *)
(* that cross a function boundary (None, dict, list, int, str) are tagged  *)
(* records, so that dict.get on a value that is not a dict can fail as it  *)
(* does in Python.                                                         *)
(***************************************************************************)
EXTENDS Integers, Sequences, FiniteSets, TLC

(***************************************************************************)
(* Bounds of the model                                                     *)
(***************************************************************************)
\* longest input (number of raw lines of a batch text or artists file)
MaxLines == 2
\* largest value of the "Parallel workers" slider / --workers argument
MaxWorkers == 2
\* largest cpu_count() of the machine running the CLI
MaxCpus == 2
\* number of sequential single lookups of one session
MaxLookups == 3
\* number of clock steps of one session
MaxTicks == 4
\* longest hit list given to the matcher
MaxHits == 3

(***************************************************************************)
(* Program constants                                                       *)
(***************************************************************************)
\* @st.cache_data(ttl=600)
TTL == 600
\* the clock advances in steps of half a TTL, so that entries are seen at
\* ages 0, 300 (live), 600 and more (expired)
TickStep == TTL \div 2

(***************************************************************************)
(* Python strings                                                          *)
(***************************************************************************)
UpperChars == {"A", "B"}
LowerChars == {"a", "b"}
DigitChars == {"2"}
SpaceChars == {" "}

\* str.lower() on one character
LowerChar(c) == IF c = "A" THEN "a" ELSE IF c = "B" THEN "b" ELSE c

\* the character class [a-z0-9] of _norm's regular expression
IsAlnumLower(c) == c \in LowerChars \cup DigitChars

Lower(s) == [i \in 1..Len(s) |-> LowerChar(s[i])]

RECURSIVE LStrip(_)
LStrip(s) ==
  IF s = <<>> THEN <<>>
  ELSE IF Head(s) \in SpaceChars THEN LStrip(Tail(s)) ELSE s

RECURSIVE RStrip(_)
RStrip(s) ==
  IF s = <<>> THEN <<>>
  ELSE IF s[Len(s)] \in SpaceChars THEN RStrip(SubSeq(s, 1, Len(s) - 1)) ELSE s

\* str.strip()
Strip(s) == RStrip(LStrip(s))

\* re.sub(r"[^a-z0-9]+", " ", s): every maximal run of characters outside
\* [a-z0-9] becomes one space (emitted at the last character of the run)
RECURSIVE SubNonAlnum(_)
SubNonAlnum(s) ==
  IF s = <<>> THEN <<>>
  ELSE IF IsAlnumLower(Head(s)) THEN <<Head(s)>> \o SubNonAlnum(Tail(s))
  ELSE IF Tail(s) # <<>> /\ ~IsAlnumLower(Head(Tail(s))) THEN SubNonAlnum(Tail(s))
  ELSE <<" ">> \o SubNonAlnum(Tail(s))

\* Genius._norm
Norm(s) == Strip(SubNonAlnum(Lower(s)))

\* str.startswith
StartsWith(s, p) == Len(p) <= Len(s) /\ SubSeq(s, 1, Len(p)) = p

\* the "in" operator on two strings
Contains(s, p) ==
  \E i \in 0..(Len(s) - Len(p)) : SubSeq(s, i + 1, i + Len(p)) = p

\* membership in str.split(): w is one of the maximal space-free pieces of s
InSplit(w, s) ==
  /\ w # <<>>
  /\ \A k \in 1..Len(w) : w[k] \notin SpaceChars
  /\ \E i \in 1..Len(s) :
       /\ i + Len(w) - 1 <= Len(s)
       /\ SubSeq(s, i, i + Len(w) - 1) = w
       /\ (i = 1 \/ s[i - 1] \in SpaceChars)
       /\ (i + Len(w) - 1 = Len(s) \/ s[i + Len(w)] \in SpaceChars)

(***************************************************************************)
(* Python values                                                           *)
(***************************************************************************)
None == [t |-> "None"]
PyInt(n) == [t |-> "int", v |-> n]
PyStr(s) == [t |-> "str", v |-> s]
PyDict(f) == [t |-> "dict", d |-> f]
PyList(l) == [t |-> "list", l |-> l]

\* truth value of a Python object (None, empty dict and empty list are falsy)
Truthy(x) ==
  /\ x # None
  /\ ~(x.t = "dict" /\ DOMAIN x.d = {})
  /\ ~(x.t = "list" /\ x.l = <<>>)

IsDict(x) == x.t = "dict"

\* dict.get(key): the value, or None when the key is absent
Get(x, key) == IF key \in DOMAIN x.d THEN x.d[key] ELSE None

\* dict.get(key, {}) as used to walk into a payload
GetOrEmpty(x, key) == IF key \in DOMAIN x.d THEN x.d[key] ELSE PyDict(<<>>)

(***************************************************************************)
(* Matcher: Genius._pick_best_artist                                       *)
(***************************************************************************)
\* one /search hit: hit["result"]["primary_artist"] has a name and an id
Hit(name, id) == [result |-> [primary_artist |-> [name |-> name, id |-> id]]]

\* a score that measures the normalized name instead of the raw one
scoreNormLen(q, hit) ==
  LET name == hit.result.primary_artist.name
      n == Norm(name)
  IN  IF n = q THEN <<3, 0 - Len(n)>>
      ELSE IF StartsWith(n, q) \/ InSplit(q, n) THEN <<2, 0 - Len(n)>>
      ELSE IF Contains(n, q) THEN <<1, 0 - Len(n)>>
      ELSE <<0, 0 - Len(n)>>

\* score(hit): the pair (tier, -len(name))
score(q, hit) ==
  LET name == hit.result.primary_artist.name
      n == Norm(name)
  IN  IF n = q THEN <<3, 0 - Len(name)>>
      ELSE IF StartsWith(n, q) \/ InSplit(q, n) THEN <<2, 0 - Len(name)>>
      ELSE IF Contains(n, q) THEN <<1, 0 - Len(name)>>
      ELSE <<0, 0 - Len(name)>>

\* an ordering that looks at the second component first
TupleLessSecondFirst(a, b) == a[2] < b[2] \/ (a[2] = b[2] /\ a[1] < b[1])

\* Python's ordering of two-element tuples
TupleLess(a, b) == a[1] < b[1] \/ (a[1] = b[1] /\ a[2] < b[2])

\* a scan that replaces the best so far on a tie: the last maximal hit
MaxByScoreLast(q, hits) ==
  LET i == CHOOSE i \in 1..Len(hits) :
             /\ \A j \in 1..Len(hits) : ~TupleLess(score(q, hits[i]), score(q, hits[j]))
             /\ \A j \in (i + 1)..Len(hits) : TupleLess(score(q, hits[j]), score(q, hits[i]))
  IN  hits[i]

\* max(hits, key=score): the first hit whose key no other hit exceeds
MaxByScore(q, hits) ==
  LET i == CHOOSE i \in 1..Len(hits) :
             /\ \A j \in 1..Len(hits) : ~TupleLess(score(q, hits[i]), score(q, hits[j]))
             /\ \A j \in 1..(i - 1) : TupleLess(score(q, hits[j]), score(q, hits[i]))
  IN  hits[i]

\* a matcher that gives up when nothing matches the query
PickBestArtistStrict(search_term, hits) ==
  IF hits = <<>> THEN None
  ELSE LET q == Norm(search_term)
           best == MaxByScore(q, hits)
       IN  IF score(q, best)[1] = 0 THEN None
           ELSE PyDict([name |-> PyStr(best.result.primary_artist.name),
                        id |-> best.result.primary_artist.id])

\* _pick_best_artist: None for an empty list, else the primary_artist of the best hit
PickBestArtist(search_term, hits) ==
  IF hits = <<>> THEN None
  ELSE LET q == Norm(search_term)
           best == MaxByScore(q, hits)
       IN  PyDict([name |-> PyStr(best.result.primary_artist.name),
                   id |-> best.result.primary_artist.id])

(***************************************************************************)
(* The remote API (a black box): what one call may answer                  *)
(***************************************************************************)
\* the exceptions a remote call can end in: requests.get raises (timeout,
\* connection failure), raise_for_status raises (non-2xx), or the body is
\* not the expected JSON (ValueError, AttributeError, KeyError)
ExcKinds == {"transport", "http", "malformed"}

ArtistIds == {1, 2}

ArtistName(id) == IF id = 1 THEN <<"A">> ELSE <<"A", " ", "b">>

IdChar(id) == IF id = 1 THEN "1" ELSE "2"

\* hit lists the /search endpoint may return
HitLists ==
  { <<>>,
    <<Hit(ArtistName(1), PyInt(1))>>,
    <<Hit(ArtistName(1), None)>>,
    <<Hit(ArtistName(2), PyInt(2)), Hit(ArtistName(1), PyInt(1))>> }

SearchResponses ==
  { [kind |-> k] : k \in ExcKinds } \cup { [kind |-> "ok", hits |-> h] : h \in HitLists }

\* the artist object of the /artists/{id} endpoint
ArtistRecord(id) ==
  PyDict([id |-> PyInt(id), name |-> PyStr(ArtistName(id)),
          followers_count |-> PyInt(10 * id),
          url |-> PyStr(<<"u", IdChar(id)>>), image_url |-> PyStr(<<"i", IdChar(id)>>)])

\* the full /artists/{id} payload: the artist sits under response.artist
ArtistPayload(id) ==
  PyDict([meta |-> PyDict([status |-> PyInt(200)]),
          response |-> PyDict([artist |-> ArtistRecord(id)])])

\* a 2xx answer is either the payload or valid JSON that is not an object
FetchResponses(id) ==
  { [kind |-> k] : k \in ExcKinds } \cup
  { [kind |-> "ok", json |-> ArtistPayload(id)],
    [kind |-> "ok", json |-> PyList(<<PyInt(id)>>)] }

(***************************************************************************)
(* Resolver: Genius.get_artist, one step per remote call                   *)
(***************************************************************************)
\* a handler narrowed to the exceptions of the requests library
CaughtRequestsOnly(exc) == exc \in {"transport", "http"}

\* "except Exception" of get_artist: which exceptions the handler catches
Caught(exc) == TRUE

\* the remote calls get_artist issues when it is entered: the search
CallsAtEntry == <<"search">>

\* the remote calls get_artist issues after a successful search with an id
CallsAfterSearch == <<"fetch">>

\* a call in progress that ends by returning value v
Returned(f, v, why) == [f EXCEPT !.st = "finished", !.result = v, !.why = why]

\* a call in progress that ends by an exception leaving get_artist
Raised(f, why) == [f EXCEPT !.st = "finished", !.raised = TRUE, !.why = why]

\* an exception inside the try block: returns None when the handler catches it
OnException(f, exc, why) == IF Caught(exc) THEN Returned(f, None, why) ELSE Raised(f, why)

\* a resolver that repeats a failed search once
AfterSearchRetry(f, resp) ==
  IF resp.kind # "ok"
  THEN IF f.calls = <<"search">>
       THEN [f EXCEPT !.calls = f.calls \o <<"search">>]
       ELSE OnException(f, resp.kind, "search_failed")
  ELSE LET primary == PickBestArtist(f.name, resp.hits)
       IN  IF ~Truthy(primary) THEN Returned(f, None, "no_candidate")
           ELSE IF Get(primary, "id") = None THEN Returned(f, None, "no_id")
           ELSE [f EXCEPT !.st = "fetch", !.aid = Get(primary, "id").v,
                          !.calls = f.calls \o CallsAfterSearch]

\* get_artist from the answer of the search call up to the fetch call
AfterSearch(f, resp) ==
  IF resp.kind # "ok" THEN OnException(f, resp.kind, "search_failed")
  ELSE LET primary == PickBestArtist(f.name, resp.hits)
       IN  IF ~Truthy(primary) THEN Returned(f, None, "no_candidate")
           ELSE IF Get(primary, "id") = None THEN Returned(f, None, "no_id")
           ELSE [f EXCEPT !.st = "fetch", !.aid = Get(primary, "id").v,
                          !.calls = f.calls \o CallsAfterSearch]

\* get_artist from the answer of the fetch call to its return
AfterFetch(f, resp) ==
  IF resp.kind # "ok" THEN OnException(f, resp.kind, "fetch_failed")
  ELSE Returned(f, resp.json, "fetched")

(***************************************************************************)
(* Result rows                                                             *)
(***************************************************************************)
\* an except branch that loses the search term
NullRowNoTerm(name) ==
  [search_term |-> <<>>, artist_name |-> None, artist_id |-> None,
   followers_count |-> None, url |-> None, image_url |-> None]

\* the row of the except branch of fetch_batch: every artist field None
NullRow(name) ==
  [search_term |-> name, artist_name |-> None, artist_id |-> None,
   followers_count |-> None, url |-> None, image_url |-> None]

\* the row of the except branches of _worker and get_artists (four columns)
NullRow4(name) ==
  [search_term |-> name, artist_name |-> None, artist_id |-> None,
   followers_count |-> None]

\* fetch_batch, body of the as_completed loop: fut.result() re-raises the
\* worker's exception; (artist or {}).get fails on a value that is not a dict
FetchBatchRow(name, f) ==
  IF f.raised THEN NullRow(name)
  ELSE LET artist == IF Truthy(f.result) THEN f.result ELSE PyDict(<<>>)
       IN  IF ~IsDict(artist) THEN NullRow(name)
           ELSE [search_term |-> name,
                 artist_name |-> Get(artist, "name"),
                 artist_id |-> Get(artist, "id"),
                 followers_count |-> Get(artist, "followers_count"),
                 url |-> Get(artist, "url"),
                 image_url |-> Get(artist, "image_url")]

\* _worker: info.get(...) if info else None, inside try/except
WorkerRow(term, f) ==
  IF f.raised THEN NullRow4(term)
  ELSE LET info == f.result
       IN  IF ~Truthy(info) THEN NullRow4(term)
           ELSE IF ~IsDict(info) THEN NullRow4(term)
           ELSE [search_term |-> term,
                 artist_name |-> Get(info, "name"),
                 artist_id |-> Get(info, "id"),
                 followers_count |-> Get(info, "followers_count")]

\* get_artists, body of the loop: the artist is payload["response"]["artist"]
\* when the payload is a dict, {} otherwise
GetArtistsRow(term, f) ==
  IF f.raised THEN NullRow4(term)
  ELSE LET payload == f.result
           response == IF IsDict(payload) THEN GetOrEmpty(payload, "response") ELSE PyDict(<<>>)
       IN  IF ~IsDict(response) THEN NullRow4(term)
           ELSE LET artist == IF IsDict(payload) THEN GetOrEmpty(response, "artist") ELSE PyDict(<<>>)
                IN  IF ~IsDict(artist) THEN NullRow4(term)
                    ELSE [search_term |-> term,
                          artist_name |-> Get(artist, "name"),
                          artist_id |-> Get(artist, "id"),
                          followers_count |-> Get(artist, "followers_count")]

(***************************************************************************)
(* Input filtering                                                         *)
(***************************************************************************)
\* clean_artist_list: strip every line, keep the non-empty ones not starting with '#'
clean_artist_list(raw) ==
  LET stripped == [i \in 1..Len(raw) |-> Strip(raw[i])]
      Keep(ln) == ln # <<>> /\ ~StartsWith(ln, <<"#">>)
  IN  SelectSeq(stripped, Keep)

\* read_artists: keep the lines that are not blank and do not start with '#'
\* (tested on the line as read), stripped
read_artists(raw) ==
  LET Keep(ln) == Strip(ln) # <<>> /\ ~StartsWith(ln, <<"#">>)
      kept == SelectSeq(raw, Keep)
  IN  [i \in 1..Len(kept) |-> Strip(kept[i])]

\* futures keyed by name: a repeated name replaces the earlier entry
SubmittedByName(list) ==
  LET Keep(a) == a # <<>> /\ Strip(a) # <<>>
      kept == SelectSeq(list, Keep)
      names == [i \in 1..Len(kept) |-> Strip(kept[i])]
      first == { i \in 1..Len(names) : \A j \in 1..(i - 1) : names[j] # names[i] }
      RECURSIVE Pick(_)
      Pick(i) == IF i > Len(names) THEN <<>>
                 ELSE IF i \in first THEN <<names[i]>> \o Pick(i + 1) ELSE Pick(i + 1)
  IN  Pick(1)

\* fetch_batch, the dict comprehension: a.strip() for a in artists if a and a.strip()
Submitted(list) ==
  LET Keep(a) == a # <<>> /\ Strip(a) # <<>>
      kept == SelectSeq(list, Keep)
  IN  [i \in 1..Len(kept) |-> Strip(kept[i])]

(***************************************************************************)
(* Cache: @st.cache_data(ttl=600) around cached_get_artist                 *)
(***************************************************************************)
\* the key of an entry is the argument of the call
CacheKey(name) == name

\* a cache without expiry
CacheLiveForever(entry, t) == TRUE

\* an entry is served while it is younger than the TTL
CacheLive(entry, t) == t - entry.ts < TTL

\* the live entries of a key (at most one)
CacheHits(c, name, t) == { e \in c : e.key = CacheKey(name) /\ CacheLive(e, t) }

\* a cache that only keeps results that are not None
CacheStoreFound(c, name, value, t) ==
  IF value = None THEN c
  ELSE { e \in c : e.key # CacheKey(name) } \cup
       { [key |-> CacheKey(name), value |-> value, ts |-> t] }

\* the return value of the function is stored, whatever it is (None included)
CacheStore(c, name, value, t) ==
  { e \in c : e.key # CacheKey(name) } \cup
  { [key |-> CacheKey(name), value |-> value, ts |-> t] }

(***************************************************************************)
(* State                                                                   *)
(***************************************************************************)
VARIABLES
  mode,      \* "app" (fetch_batch), "pool" (main with --workers > 0),
             \* "single" (main through get_artists), "lookup" (single-artist tab)
  lines,     \* the raw lines of the batch text or of the artists file
  bound,     \* the requested concurrency: max_workers, --workers (1 for single)
  poolsize,  \* the size of the pool actually created
  phase,     \* "init", "running", "returned", "failed", "session"
  futures,   \* one record per submitted query, in submission order
  order,     \* the indices of the futures in the order their rows were appended
  rows,      \* the rows appended so far
  done,      \* the completed count of the progress signal
  total,     \* the total of the progress signal
  df,        \* the table returned by the batch
  cache,     \* the entries of the cache of cached_get_artist
  now,       \* the clock
  lookups,   \* the single lookups of the session, in order
  token,     \* whether ACCESS_TOKEN is set
  run,       \* 1 for the first run of a batch, 2 for its re-run
  prev_df,   \* the table the first run returned
  search_term, \* the query given to the matcher
  hit_list,  \* the hits given to the matcher
  picked     \* what the matcher returned

vars == <<mode, lines, bound, poolsize, phase, futures, order, rows, done, total,
          df, cache, now, lookups, token, run, prev_df, search_term, hit_list, picked>>

config == <<mode, lines, bound, poolsize>>
matcher == <<search_term, hit_list, picked>>
aux == <<token, run, prev_df, matcher>>

\* the matcher has not been called
Unset == [t |-> "unset"]

\* a first run with a credential, outside the matcher
AuxIdle ==
  /\ token = TRUE
  /\ run = 1
  /\ prev_df = <<>>
  /\ search_term = <<>>
  /\ hit_list = <<>>
  /\ picked = Unset
batch == <<phase, futures, order, rows, done, total, df>>

\* raw input lines: blank, names differing in case and trailing space,
\* a comment, an indented comment
RawLines == { <<" ">>, <<"A">>, <<"a">>, <<"a", " ">>, <<"#">>, <<" ", "#">> }

SeqsUpTo(S, n) == UNION { [1..k -> S] : k \in 0..n }

Min(a, b) == IF a <= b THEN a ELSE b

\* a pool as large as the larger of the two numbers
PoolSizeMax(workers, cpus) == IF workers >= cpus THEN workers ELSE cpus

\* a pool that leaves one core free
PoolSizeLessOne(workers, cpus) == Min(workers, cpus) - 1

\* main: n = min(args.workers, cpu_count())
PoolSize(workers, cpus) == Min(workers, cpus)

\* a query submitted and not yet taken by a worker
NewFuture(name) ==
  [name |-> name, st |-> "queued", result |-> None, raised |-> FALSE,
   aid |-> 0, calls |-> <<>>, why |-> "none"]

\* futures whose resolver call has started and not yet returned
InFlight == { i \in 1..Len(futures) : futures[i].st \in {"search", "fetch"} }

Queued == { i \in 1..Len(futures) : futures[i].st = "queued" }

Collected == { order[j] : j \in 1..Len(order) }

Init ==
  /\ mode \in {"app", "pool", "single"}
  /\ lines \in SeqsUpTo(RawLines, MaxLines)
  /\ \E w \in 1..MaxWorkers, c \in 1..MaxCpus :
       \* max_workers of the slider; n = min(args.workers, cpu_count()); one process
       /\ bound = IF mode = "single" THEN 1 ELSE w
       /\ poolsize = IF mode = "app" THEN w ELSE IF mode = "pool" THEN PoolSize(w, c) ELSE 1
  /\ phase = "init"
  /\ futures = <<>>
  /\ order = <<>>
  /\ rows = <<>>
  /\ done = 0
  /\ total = 0
  /\ df = <<>>
  /\ cache = {}
  /\ now = 0
  /\ lookups = <<>>
  /\ AuxIdle

(***************************************************************************)
(* Batch, app.py: "Process batch" and fetch_batch                          *)
(***************************************************************************)
\* tab 2 cleans the text and calls fetch_batch when the list is not empty;
\* fetch_batch submits one future per kept entry and sets up the progress bar
FetchBatchSubmit ==
  /\ mode = "app" /\ phase = "init"
  /\ LET artists_list == clean_artist_list(lines)
         names == Submitted(artists_list)
     IN  /\ artists_list # <<>>
         /\ futures' = [i \in 1..Len(names) |-> NewFuture(names[i])]
         /\ total' = Len(names)
  /\ done' = 0
  /\ phase' = "running"
  /\ UNCHANGED <<config, aux, order, rows, df, cache, now, lookups>>

\* a pool thread takes the oldest queued call of cached_get_artist: a live
\* entry is returned at once, otherwise get_artist starts with the search call
CachedGetArtistEnter(i) ==
  /\ mode = "app" /\ phase = "running"
  /\ token \/ CacheHits(cache, futures[i].name, now) # {}
  /\ i \in Queued /\ \A j \in Queued : i <= j
  /\ Cardinality(InFlight) < poolsize
  /\ LET f == futures[i]
         hits == CacheHits(cache, f.name, now)
     IN  IF hits # {}
         THEN futures' = [futures EXCEPT ![i] = Returned(f, (CHOOSE e \in hits : TRUE).value, "cache_hit")]
         ELSE futures' = [futures EXCEPT ![i] = [f EXCEPT !.st = "search", !.calls = CallsAtEntry]]
  /\ UNCHANGED <<config, aux, phase, order, rows, done, total, df, cache, now, lookups>>

\* the value get_artist returned is stored by the cache decorator (app only)
CacheAfter(f) ==
  IF mode = "app" /\ f.st = "finished" /\ ~f.raised
  THEN CacheStore(cache, f.name, f.result, now)
  ELSE cache

\* the search call of future i answers
SearchReturn(i, resp) ==
  /\ phase = "running"
  /\ i \in 1..Len(futures) /\ futures[i].st = "search"
  /\ LET f == AfterSearch(futures[i], resp)
     IN  /\ futures' = [futures EXCEPT ![i] = f]
         /\ cache' = CacheAfter(f)
  /\ UNCHANGED <<config, aux, phase, order, rows, done, total, df, now, lookups>>

\* the fetch call of future i answers
FetchReturn(i, resp) ==
  /\ phase = "running"
  /\ i \in 1..Len(futures) /\ futures[i].st = "fetch"
  /\ resp \in FetchResponses(futures[i].aid)
  /\ LET f == AfterFetch(futures[i], resp)
     IN  /\ futures' = [futures EXCEPT ![i] = f]
         /\ cache' = CacheAfter(f)
  /\ UNCHANGED <<config, aux, phase, order, rows, done, total, df, now, lookups>>

\* a loop that counts an item only when its row was built in the try branch
AsCompletedDoneInTry(i) ==
  /\ mode = "app" /\ phase = "running"
  /\ i \in 1..Len(futures) /\ futures[i].st = "finished" /\ i \notin Collected
  /\ rows' = Append(rows, FetchBatchRow(futures[i].name, futures[i]))
  /\ order' = Append(order, i)
  /\ done' = IF futures[i].raised \/ (Truthy(futures[i].result) /\ ~IsDict(futures[i].result))
             THEN done ELSE done + 1
  /\ UNCHANGED <<config, aux, phase, futures, total, df, cache, now, lookups>>

\* as_completed yields a finished future; its row is appended, done is bumped
AsCompleted(i) ==
  /\ mode = "app" /\ phase = "running"
  /\ i \in 1..Len(futures) /\ futures[i].st = "finished" /\ i \notin Collected
  /\ rows' = Append(rows, FetchBatchRow(futures[i].name, futures[i]))
  /\ order' = Append(order, i)
  /\ done' = done + 1
  /\ UNCHANGED <<config, aux, phase, futures, total, df, cache, now, lookups>>

\* the loop is exhausted: the table is built from the rows and returned
ReturnTable ==
  /\ phase = "running"
  /\ Len(order) = Len(futures)
  /\ df' = rows
  /\ phase' = "returned"
  /\ UNCHANGED <<config, aux, futures, order, rows, done, total, cache, now, lookups>>

(***************************************************************************)
(* Batch, build_artist_dataset.py: main                                    *)
(***************************************************************************)
\* main reads the artists file (ValueError when nothing is usable) and hands
\* the list to the pool or to get_artists
MainStart ==
  /\ mode \in {"pool", "single"} /\ phase = "init"
  /\ token
  /\ LET artists == read_artists(lines)
     IN  IF artists = <<>>
         THEN /\ phase' = "failed"
              /\ UNCHANGED <<futures, total>>
         ELSE /\ phase' = "running"
              /\ futures' = [i \in 1..Len(artists) |-> NewFuture(artists[i])]
              /\ total' = Len(artists)
  /\ done' = 0
  /\ UNCHANGED <<config, aux, order, rows, df, cache, now, lookups>>

\* a pool process takes the next term and calls _worker, which enters get_artist
PoolWorkerEnter(i) ==
  /\ mode = "pool" /\ phase = "running"
  /\ i \in Queued /\ \A j \in Queued : i <= j
  /\ Cardinality(InFlight) < poolsize
  /\ futures' = [futures EXCEPT ![i] = [@ EXCEPT !.st = "search", !.calls = CallsAtEntry]]
  /\ UNCHANGED <<config, aux, phase, order, rows, done, total, df, cache, now, lookups>>

\* imap_unordered yields the row of a finished _worker call
ImapUnordered(i) ==
  /\ mode = "pool" /\ phase = "running"
  /\ i \in 1..Len(futures) /\ futures[i].st = "finished" /\ i \notin Collected
  /\ rows' = Append(rows, WorkerRow(futures[i].name, futures[i]))
  /\ order' = Append(order, i)
  /\ done' = done + 1
  /\ UNCHANGED <<config, aux, phase, futures, total, df, cache, now, lookups>>

\* get_artists, loop: the next term's get_artist call starts when the
\* previous term's row has been appended
GetArtistsEnter(i) ==
  /\ mode = "single" /\ phase = "running"
  /\ i = Len(rows) + 1 /\ i \in Queued
  /\ futures' = [futures EXCEPT ![i] = [@ EXCEPT !.st = "search", !.calls = CallsAtEntry]]
  /\ UNCHANGED <<config, aux, phase, order, rows, done, total, df, cache, now, lookups>>

\* get_artists, loop: the row of the term is appended
GetArtistsAppend(i) ==
  /\ mode = "single" /\ phase = "running"
  /\ i \in 1..Len(futures) /\ futures[i].st = "finished" /\ i \notin Collected
  /\ rows' = Append(rows, GetArtistsRow(futures[i].name, futures[i]))
  /\ order' = Append(order, i)
  /\ done' = done + 1
  /\ UNCHANGED <<config, aux, phase, futures, total, df, cache, now, lookups>>

Next ==
  \/ FetchBatchSubmit
  \/ MainStart
  \/ \E i \in 1..Len(futures) : CachedGetArtistEnter(i)
  \/ \E i \in 1..Len(futures) : PoolWorkerEnter(i)
  \/ \E i \in 1..Len(futures) : GetArtistsEnter(i)
  \/ \E i \in 1..Len(futures), resp \in SearchResponses : SearchReturn(i, resp)
  \/ \E i \in 1..Len(futures) : \E resp \in FetchResponses(futures[i].aid) : FetchReturn(i, resp)
  \/ \E i \in 1..Len(futures) : AsCompleted(i)
  \/ \E i \in 1..Len(futures) : ImapUnordered(i)
  \/ \E i \in 1..Len(futures) : GetArtistsAppend(i)
  \/ ReturnTable

Spec == Init /\ [][Next]_vars

(***************************************************************************)
(* Single lookups, app.py tab 1: a session of sequential lookups           *)
(***************************************************************************)
\* texts typed in the "Artist name" box (passed to the cache as typed)
LookupQueries == { <<"A">>, <<"a", " ">> }

InitLookup ==
  /\ mode = "lookup"
  /\ lines = <<>>
  /\ bound = 1
  /\ poolsize = 1
  /\ phase = "session"
  /\ futures = <<>>
  /\ order = <<>>
  /\ rows = <<>>
  /\ done = 0
  /\ total = 0
  /\ df = <<>>
  /\ cache = {}
  /\ now = 0
  /\ lookups = <<>>
  /\ AuxIdle

\* one entry of the session log: what the lookup of query at time at did
LookupEntry(f, hit) ==
  [query |-> f.name, at |-> now, hit |-> hit, result |-> f.result,
   raised |-> f.raised, calls |-> f.calls]

\* "Search" pressed with a non-empty text: cached_get_artist(query) returns a
\* live entry, or runs get_artist (search, then fetch) and stores what it returns
SingleLookup(query) ==
  /\ mode = "lookup" /\ phase = "session"
  /\ Len(lookups) < MaxLookups
  /\ query # <<>>
  /\ LET f0 == NewFuture(query)
         hits == CacheHits(cache, query, now)
     IN  IF hits # {}
         THEN /\ lookups' = Append(lookups,
                   LookupEntry(Returned(f0, (CHOOSE e \in hits : TRUE).value, "cache_hit"), TRUE))
              /\ cache' = cache
         ELSE \E sresp \in SearchResponses :
                LET f1 == AfterSearch([f0 EXCEPT !.st = "search", !.calls = CallsAtEntry], sresp)
                IN  IF f1.st = "fetch"
                    THEN \E fresp \in FetchResponses(f1.aid) :
                           LET f2 == AfterFetch(f1, fresp)
                           IN  /\ lookups' = Append(lookups, LookupEntry(f2, FALSE))
                               /\ cache' = IF f2.raised THEN cache
                                           ELSE CacheStore(cache, query, f2.result, now)
                    ELSE /\ lookups' = Append(lookups, LookupEntry(f1, FALSE))
                         /\ cache' = IF f1.raised THEN cache
                                     ELSE CacheStore(cache, query, f1.result, now)
  /\ UNCHANGED <<config, aux, batch, now>>

\* time passes between two interactions
Tick ==
  /\ mode = "lookup" /\ phase = "session"
  /\ now < MaxTicks * TickStep
  /\ now' = now + TickStep
  /\ UNCHANGED <<config, aux, batch, cache, lookups>>

NextLookup ==
  \/ \E query \in LookupQueries : SingleLookup(query)
  \/ Tick

SpecLookup == InitLookup /\ [][NextLookup]_vars

(***************************************************************************)
(* A batch run twice against a remote API that answers deterministically   *)
(***************************************************************************)
\* the stub of /search: 'A' has one hit, 'a' fails (transport), any other
\* text has no hit
StubSearch(name) ==
  IF name = <<"A">> THEN [kind |-> "ok", hits |-> <<Hit(ArtistName(1), PyInt(1))>>]
  ELSE IF name = <<"a">> THEN [kind |-> "transport"]
  ELSE [kind |-> "ok", hits |-> <<>>]

\* the stub of /artists/{id}: the record of the id
StubFetch(id) == [kind |-> "ok", json |-> ArtistPayload(id)]

\* the same input is processed a second time ("Process batch" pressed again,
\* the command run again); the cache of the session is kept
Rerun ==
  /\ phase = "returned" /\ run = 1
  /\ prev_df' = df
  /\ run' = 2
  /\ phase' = "init"
  /\ futures' = <<>>
  /\ order' = <<>>
  /\ rows' = <<>>
  /\ done' = 0
  /\ total' = 0
  /\ df' = <<>>
  /\ UNCHANGED <<config, cache, now, lookups, token, matcher>>

NextRerun ==
  \/ FetchBatchSubmit
  \/ MainStart
  \/ \E i \in 1..Len(futures) : CachedGetArtistEnter(i)
  \/ \E i \in 1..Len(futures) : PoolWorkerEnter(i)
  \/ \E i \in 1..Len(futures) : GetArtistsEnter(i)
  \/ \E i \in 1..Len(futures) : SearchReturn(i, StubSearch(futures[i].name))
  \/ \E i \in 1..Len(futures) : FetchReturn(i, StubFetch(futures[i].aid))
  \/ \E i \in 1..Len(futures) : AsCompleted(i)
  \/ \E i \in 1..Len(futures) : ImapUnordered(i)
  \/ \E i \in 1..Len(futures) : GetArtistsAppend(i)
  \/ ReturnTable
  \/ Rerun

SpecRerun == Init /\ [][NextRerun]_vars

(***************************************************************************)
(* The pipeline without ACCESS_TOKEN                                       *)
(***************************************************************************)
InitNoToken ==
  /\ mode \in {"app", "pool", "single"}
  /\ lines \in SeqsUpTo(RawLines, MaxLines)
  /\ \E w \in 1..MaxWorkers, c \in 1..MaxCpus :
       /\ bound = IF mode = "single" THEN 1 ELSE w
       /\ poolsize = IF mode = "app" THEN w ELSE IF mode = "pool" THEN PoolSize(w, c) ELSE 1
  /\ phase = "init"
  /\ futures = <<>>
  /\ order = <<>>
  /\ rows = <<>>
  /\ done = 0
  /\ total = 0
  /\ df = <<>>
  /\ cache = {}
  /\ now = 0
  /\ lookups = <<>>
  /\ token = FALSE
  /\ run = 1
  /\ prev_df = <<>>
  /\ search_term = <<>>
  /\ hit_list = <<>>
  /\ picked = Unset

\* main: "if not ACCESS_TOKEN: raise RuntimeError", before the file is read
MainNoToken ==
  /\ mode \in {"pool", "single"} /\ phase = "init"
  /\ ~token
  /\ phase' = "failed"
  /\ UNCHANGED <<config, aux, futures, order, rows, done, total, df, cache, now, lookups>>

\* what st.stop() does in a pool thread is not fixed by the source: either it
\* raises the script-stop exception, or it returns and get_client hands out
\* the default client, which has no Authorization header
StopOutcomes == {"raises", "returns"}

\* a pool thread takes a call of cached_get_artist that misses the cache:
\* get_client finds no token and calls st.stop()
GetClientStop(i, outcome) ==
  /\ mode = "app" /\ phase = "running"
  /\ ~token
  /\ i \in Queued /\ \A j \in Queued : i <= j
  /\ Cardinality(InFlight) < poolsize
  /\ CacheHits(cache, futures[i].name, now) = {}
  /\ futures' = [futures EXCEPT ![i] =
       IF outcome = "raises" THEN Raised(@, "stopped")
       ELSE [@ EXCEPT !.st = "search", !.calls = CallsAtEntry]]
  /\ UNCHANGED <<config, aux, phase, order, rows, done, total, df, cache, now, lookups>>

\* as_completed yields a stopped future and fut.result() re-raises an
\* exception that "except Exception" does not catch: fetch_batch is left
AsCompletedStop(i) ==
  /\ mode = "app" /\ phase = "running"
  /\ i \in 1..Len(futures) /\ futures[i].st = "finished" /\ i \notin Collected
  /\ futures[i].raised /\ futures[i].why = "stopped"
  /\ phase' = "failed"
  /\ UNCHANGED <<config, aux, futures, order, rows, done, total, df, cache, now, lookups>>

NextNoToken ==
  \/ MainNoToken
  \/ FetchBatchSubmit
  \/ \E i \in 1..Len(futures) : CachedGetArtistEnter(i)
  \/ \E i \in 1..Len(futures), outcome \in StopOutcomes : GetClientStop(i, outcome)
  \/ \E i \in 1..Len(futures), resp \in SearchResponses : SearchReturn(i, resp)
  \/ \E i \in 1..Len(futures) : \E resp \in FetchResponses(futures[i].aid) : FetchReturn(i, resp)
  \/ \E i \in 1..Len(futures) : AsCompleted(i)
  \/ \E i \in 1..Len(futures) : AsCompletedStop(i)
  \/ ReturnTable

SpecNoToken == InitNoToken /\ [][NextNoToken]_vars

(***************************************************************************)
(* Fair scheduling: every remote call answers or times out, every worker   *)
(* that can take a step eventually takes one, the collecting loop runs     *)
(***************************************************************************)
\* input lines of the fair runs: two names and a blank line
LiveLines == { <<"A">>, <<"a", " ">>, <<" ">> }

InitFair ==
  /\ mode \in {"app", "pool", "single"}
  /\ lines \in SeqsUpTo(LiveLines, MaxLines)
  /\ \E w \in 1..MaxWorkers, c \in 1..MaxCpus :
       /\ bound = IF mode = "single" THEN 1 ELSE w
       /\ poolsize = IF mode = "app" THEN w ELSE IF mode = "pool" THEN PoolSize(w, c) ELSE 1
  /\ phase = "init"
  /\ futures = <<>>
  /\ order = <<>>
  /\ rows = <<>>
  /\ done = 0
  /\ total = 0
  /\ df = <<>>
  /\ cache = {}
  /\ now = 0
  /\ lookups = <<>>
  /\ AuxIdle

SpecFair == InitFair /\ [][Next]_vars /\ WF_vars(Next)

(***************************************************************************)
(* Properties                                                              *)
(***************************************************************************)
Concurrent == mode \in {"app", "pool"}

\* every artist field of a row is None
AllNull(row) ==
  /\ row.artist_name = None /\ row.artist_id = None /\ row.followers_count = None
  /\ "url" \in DOMAIN row => row.url = None /\ row.image_url = None

\* the row the running mode builds for a finished call
ModeRow(f) ==
  IF mode = "app" THEN FetchBatchRow(f.name, f)
  ELSE IF mode = "pool" THEN WorkerRow(f.name, f)
  ELSE GetArtistsRow(f.name, f)

\* the resolution of the item failed: a remote call failed, an exception left
\* the resolver, or the payload is not an object
Failed(f) ==
  /\ f.st = "finished"
  /\ \/ f.raised
     \/ f.why \in {"search_failed", "fetch_failed"}
     \/ (f.why = "fetched" /\ ~IsDict(f.result))

\* both remote calls succeeded and the artist record came back
Fetched(f) ==
  f.st = "finished" /\ f.why = "fetched" /\ f.result = ArtistPayload(f.aid)

\* C1: the rows of the table a concurrent batch returns are in the order of
\* the submitted queries: row i carries the i-th submitted query
C1_RowsInSubmissionOrder ==
  (phase = "returned" /\ Concurrent) =>
    \A i \in 1..Len(df) : df[i].search_term = futures[i].name

\* C2: the row of a query whose search and fetch both succeeded, in a
\* concurrent batch, carries the name, id and followers count of the fetched
\* artist record
C2_FetchedRowPopulated ==
  Concurrent =>
    \A j \in 1..Len(rows) :
      LET f == futures[order[j]]
          a == ArtistRecord(f.aid)
      IN  Fetched(f) =>
            /\ rows[j].artist_name = Get(a, "name")
            /\ rows[j].artist_id = Get(a, "id")
            /\ rows[j].followers_count = Get(a, "followers_count")

\* number of non-blank entries of a list of lines
NonBlankCount(list) == Cardinality({ i \in 1..Len(list) : Strip(list[i]) # <<>> })

\* the list the batch of the running mode is given
BatchInput == IF mode = "app" THEN clean_artist_list(lines) ELSE read_artists(lines)

\* C3: a batch returns exactly one row per submitted query, i.e. per non-blank
\* entry of its input with duplicates counted separately, whatever the
\* outcomes: every future has exactly one row, carrying its search term
C3_OneRowPerQuery ==
  /\ Len(rows) <= Len(futures)
  /\ \A j, k \in 1..Len(order) : order[j] = order[k] => j = k
  /\ \A j \in 1..Len(rows) : rows[j].search_term = futures[order[j]].name
  /\ phase = "returned" =>
       /\ df = rows
       /\ Len(df) = Len(futures)
       /\ Len(df) = NonBlankCount(BatchInput)
       /\ Len(df) = total

\* a batch of two equal queries returned two rows although both items failed
C3_Witness ==
  /\ phase = "returned" /\ Len(df) = 2
  /\ df[1].search_term = df[2].search_term
  /\ \A i \in 1..2 : futures[i].why = "search_failed"

\* C4: a failed item yields exactly one row, with its search term and every
\* artist field None; none of its remote calls is repeated; the batch is not
\* aborted and returns a row for every item; every row is the row of its own
\* item's outcome
C4_FailureIsolation ==
  /\ \A i \in 1..Len(futures) :
       Failed(futures[i]) =>
         /\ Cardinality({ j \in 1..Len(order) : order[j] = i }) <= 1
         /\ futures[i].calls \in { <<"search">>, <<"search", "fetch">> }
         /\ \A j \in 1..Len(order) :
              order[j] = i => rows[j].search_term = futures[i].name /\ AllNull(rows[j])
  /\ \A j \in 1..Len(rows) : rows[j] = ModeRow(futures[order[j]])
  /\ futures # <<>> => phase \in {"running", "returned"}
  /\ phase = "returned" => \A i \in 1..Len(futures) : \E j \in 1..Len(order) : order[j] = i

\* a batch returned with a failed item, collected first, next to a fetched one;
\* one of the failures is a payload that is not an object
C4_Witness ==
  /\ phase = "returned" /\ Len(df) >= 2
  /\ Failed(futures[order[1]]) /\ Fetched(futures[order[2]])
  /\ futures[order[1]].why = "fetched"

\* C5: at most k resolver calls are in flight, k the requested concurrency
C5_BoundedInFlight == Cardinality(InFlight) <= bound

\* the pool is full while a query still waits
C5_Witness == Cardinality(InFlight) = bound /\ Queued # {} /\ Concurrent

\* C6: no exception leaves get_artist, whatever the remote calls answer
C6_NoEscape ==
  /\ \A i \in 1..Len(futures) : ~futures[i].raised
  /\ \A i \in 1..Len(futures) :
       (futures[i].st = "finished" /\ futures[i].why \in {"search_failed", "fetch_failed"})
         => futures[i].result = None

\* one call failed at the search step and another at the fetch step
C6_Witness ==
  /\ \E i \in 1..Len(futures) : futures[i].why = "search_failed"
  /\ \E i \in 1..Len(futures) : futures[i].why = "fetch_failed"

\* C7: one resolution issues search then fetch when it succeeds, the search
\* only when the search fails or no candidate is found, never more than two
\* calls, none repeated, and no fetch before the search has succeeded
C7_RemoteCalls ==
  \A i \in 1..Len(futures) :
    LET f == futures[i]
    IN  /\ f.calls \in { <<>>, <<"search">>, <<"search", "fetch">> }
        /\ f.st = "queued" => f.calls = <<>>
        /\ f.st = "search" => f.calls = <<"search">>
        /\ f.st = "fetch" => f.calls = <<"search", "fetch">>
        /\ f.st = "finished" =>
             /\ f.why = "cache_hit" => f.calls = <<>>
             /\ f.why \in {"search_failed", "no_candidate", "no_id"} => f.calls = <<"search">>
             /\ f.why \in {"fetched", "fetch_failed"} => f.calls = <<"search", "fetch">>

\* a success, a not-found and a failed search side by side
C7_Witness ==
  /\ \E i \in 1..Len(futures) : Fetched(futures[i])
  /\ \E i \in 1..Len(futures) :
       futures[i].why \in {"no_candidate", "search_failed"} /\ futures[i].st = "finished"

\* C8: of two lookups of one cache key less than a TTL apart, the first of
\* which ran the resolver, the second is served from the cache: no remote
\* call, and the outcome of the first (None included)
C8_SecondLookupIsHit ==
  \A j, k \in 1..Len(lookups) :
    (/\ j < k
     /\ CacheKey(lookups[j].query) = CacheKey(lookups[k].query)
     /\ ~lookups[j].hit /\ ~lookups[j].raised
     /\ lookups[k].at - lookups[j].at < TTL)
    => /\ lookups[k].hit
       /\ lookups[k].calls = <<>>
       /\ lookups[k].result = lookups[j].result

\* a not-found or failed lookup was repeated half a TTL later and served
C8_Witness ==
  /\ Len(lookups) >= 2
  /\ ~lookups[1].hit /\ lookups[1].result = None
  /\ lookups[2].query = lookups[1].query
  /\ lookups[2].at = lookups[1].at + TickStep
  /\ lookups[2].hit

\* C9: two queries with the same normalization share a cache entry: the
\* second of them within the TTL causes no remote call
C9_NormalizedKey ==
  \A j, k \in 1..Len(lookups) :
    (/\ j < k
     /\ Norm(lookups[j].query) = Norm(lookups[k].query)
     /\ ~lookups[j].hit
     /\ lookups[k].at - lookups[j].at < TTL)
    => lookups[k].hit /\ lookups[k].calls = <<>>

\* the misses of key q among the first n lookups
MissesBefore(q, n) ==
  { j \in 1..n : CacheKey(lookups[j].query) = CacheKey(q) /\ ~lookups[j].hit }

Max(S) == CHOOSE x \in S : \A y \in S : y <= x

\* C10: a lookup whose entry is older than the TTL is a miss that runs the
\* resolver once (search first, at most two calls); what it returns is stored
\* with the time of that lookup, and a later lookup less than a TTL after it
\* is a hit
C10_ExpiryRefreshes ==
  /\ \A k \in 1..Len(lookups) :
       LET prev == MissesBefore(lookups[k].query, k - 1)
       IN  (prev # {} /\ lookups[k].at - lookups[Max(prev)].at > TTL) =>
             /\ ~lookups[k].hit
             /\ lookups[k].calls \in { <<"search">>, <<"search", "fetch">> }
             /\ \A m \in (k + 1)..Len(lookups) :
                  (/\ lookups[m].query = lookups[k].query
                   /\ lookups[m].at - lookups[k].at < TTL) => lookups[m].hit
  /\ \A q \in { lookups[k].query : k \in 1..Len(lookups) } :
       LET all == MissesBefore(q, Len(lookups))
       IN  all # {} =>
             \E e \in cache :
               /\ e.key = CacheKey(q)
               /\ e.ts = lookups[Max(all)].at
               /\ e.value = lookups[Max(all)].result

\* an entry was looked up after more than a TTL, refreshed, and served again
\* half a TTL later
C10_Witness ==
  /\ Len(lookups) = 3
  /\ \A k \in 1..3 : lookups[k].query = lookups[1].query
  /\ ~lookups[1].hit
  /\ lookups[2].at - lookups[1].at > TTL /\ ~lookups[2].hit
  /\ lookups[3].at = lookups[2].at + TickStep /\ lookups[3].hit

(***************************************************************************)
(* The matcher on its own: _pick_best_artist applied to a query and hits   *)
(***************************************************************************)
\* queries: empty, a name, the same name in upper case with a blank, another
MatcherQueries == { <<>>, <<"a">>, <<"A", " ">>, <<"b">> }

\* display names: exact, exact with punctuation, prefix, whole word,
\* substring, unrelated (relative to the query "a")
MatcherNames ==
  { <<"A">>, <<"#", "A">>, <<"A", " ", "b">>, <<"b", " ", "a">>, <<"b", "a">>, <<"b">> }

\* the hits: every name with id 1, and the first name a second time with id 2
MatcherHits ==
  { Hit(n, PyInt(1)) : n \in MatcherNames } \cup { Hit(<<"A">>, PyInt(2)) }

InitMatcher ==
  /\ mode = "matcher"
  /\ lines = <<>>
  /\ bound = 1
  /\ poolsize = 1
  /\ phase = "matcher"
  /\ futures = <<>>
  /\ order = <<>>
  /\ rows = <<>>
  /\ done = 0
  /\ total = 0
  /\ df = <<>>
  /\ cache = {}
  /\ now = 0
  /\ lookups = <<>>
  /\ token = TRUE
  /\ run = 1
  /\ prev_df = <<>>
  /\ search_term \in MatcherQueries
  /\ hit_list \in SeqsUpTo(MatcherHits, MaxHits)
  /\ picked = Unset

\* primary = self._pick_best_artist(search_term, hits)
PickBest ==
  /\ mode = "matcher" /\ picked = Unset
  /\ picked' = PickBestArtist(search_term, hit_list)
  /\ UNCHANGED <<config, batch, cache, now, lookups, token, run, prev_df, search_term, hit_list>>

NextMatcher == PickBest

SpecMatcher == InitMatcher /\ [][NextMatcher]_vars

\* the display name of a hit
HitName(h) == h.result.primary_artist.name

\* the primary_artist of a hit, as the matcher returns it
PrimaryOf(h) == PyDict([name |-> PyStr(HitName(h)), id |-> h.result.primary_artist.id])

\* the tier of a display name for a query: 3 exact, 2 prefix or whole word,
\* 1 substring, 0 otherwise, all on normalized text
TierOf(q, name) ==
  LET nq == Norm(q)
      nn == Norm(name)
  IN  CASE nn = nq -> 3
        [] nn # nq /\ (StartsWith(nn, nq) \/ InSplit(nq, nn)) -> 2
        [] nn # nq /\ ~StartsWith(nn, nq) /\ ~InSplit(nq, nn) /\ Contains(nn, nq) -> 1
        [] OTHER -> 0

MatcherCalled == mode = "matcher" /\ picked # Unset

\* C11: the selected candidate has the highest tier present in the hit list,
\* whatever the order of the list and the lengths of the names
C11_HighestTier ==
  (MatcherCalled /\ hit_list # <<>>) =>
    /\ picked # None
    /\ \A j \in 1..Len(hit_list) :
         TierOf(search_term, HitName(hit_list[j])) <= TierOf(search_term, Get(picked, "name").v)

\* an exact match was chosen over an earlier, shorter candidate of a lower tier
C11_Witness ==
  /\ MatcherCalled /\ Len(hit_list) >= 2
  /\ TierOf(search_term, Get(picked, "name").v) = 3
  /\ TierOf(search_term, HitName(hit_list[1])) < 3
  /\ Len(HitName(hit_list[1])) < Len(Get(picked, "name").v)

\* C12: the matcher returns None exactly when the hit list is empty, for any
\* query (the empty one included); for a non-empty list it returns the
\* primary artist of one of the hits, even when no hit matches the query
C12_NoneIffEmpty ==
  MatcherCalled =>
    /\ (picked = None) <=> (hit_list = <<>>)
    /\ hit_list # <<>> => \E j \in 1..Len(hit_list) : picked = PrimaryOf(hit_list[j])

\* no hit matches the query and one of them is returned all the same
C12_Witness ==
  /\ MatcherCalled /\ hit_list # <<>>
  /\ \A j \in 1..Len(hit_list) : TierOf(search_term, HitName(hit_list[j])) = 0
  /\ \E j \in 1..Len(hit_list) : picked = PrimaryOf(hit_list[j])

\* C13: no candidate of the tier of the selected one has a strictly shorter
\* raw display name than the selected one
C13_ShortestInTier ==
  (MatcherCalled /\ hit_list # <<>>) =>
    /\ picked # None
    /\ \A j \in 1..Len(hit_list) :
         TierOf(search_term, HitName(hit_list[j])) = TierOf(search_term, Get(picked, "name").v)
           => Len(HitName(hit_list[j])) >= Len(Get(picked, "name").v)

\* two candidates of the top tier, the longer one first: the shorter is selected
C13_Witness ==
  /\ MatcherCalled /\ Len(hit_list) >= 2
  /\ TierOf(search_term, HitName(hit_list[1])) = TierOf(search_term, Get(picked, "name").v)
  /\ Len(HitName(hit_list[1])) > Len(Get(picked, "name").v)
  /\ Norm(HitName(hit_list[1])) = Norm(Get(picked, "name").v)

\* the (tier, -length of the raw name) pair of hit j
PairOf(j) == <<TierOf(search_term, HitName(hit_list[j])), 0 - Len(HitName(hit_list[j]))>>

PairLess(a, b) == a[1] < b[1] \/ (a[1] = b[1] /\ a[2] < b[2])

\* the positions of the hits whose pair is maximal
TopTied == { j \in 1..Len(hit_list) : \A k \in 1..Len(hit_list) : ~PairLess(PairOf(j), PairOf(k)) }

MinOf(S) == CHOOSE x \in S : \A y \in S : x <= y

\* C14 as stated: of the candidates sharing the maximal (tier, length) pair,
\* the one latest in the hit list is returned
C14_LastTiedWins ==
  (MatcherCalled /\ hit_list # <<>>) => picked = PrimaryOf(hit_list[Max(TopTied)])

\* C14 as amended: of the candidates sharing the maximal (tier, length) pair,
\* the one earliest in the hit list is returned
C14_FirstTiedWins ==
  (MatcherCalled /\ hit_list # <<>>) => picked = PrimaryOf(hit_list[MinOf(TopTied)])

\* two fully tied candidates with different ids: the earlier one is returned
C14_Witness ==
  /\ MatcherCalled /\ Cardinality(TopTied) >= 2
  /\ PrimaryOf(hit_list[MinOf(TopTied)]) # PrimaryOf(hit_list[Max(TopTied)])
  /\ picked = PrimaryOf(hit_list[MinOf(TopTied)])

\* a line that must not be submitted: empty, blank, or a comment (its first
\* non-blank character is '#')
Discarded(ln) == Strip(ln) = <<>> \/ Head(Strip(ln)) = "#"

\* the trimmed forms of the lines that must be submitted, in order
ExpectedQueries ==
  LET Keep(ln) == ~Discarded(ln)
      kept == SelectSeq(lines, Keep)
  IN  [i \in 1..Len(kept) |-> Strip(kept[i])]

\* C15: on every ingestion path the submitted queries are exactly the lines
\* that are neither blank nor comments, trimmed: no discarded line reaches a
\* worker or gets a row
C15_FilteredInput ==
  (mode \in {"app", "pool", "single"} /\ phase \in {"running", "returned"}) =>
    /\ \A i \in 1..Len(futures) : ~Discarded(futures[i].name)
    /\ [i \in 1..Len(futures) |-> futures[i].name] = ExpectedQueries

\* C16: a batch run again with the same input and the same remote answers
\* returns the table of the first run, whatever the scheduling of either run
C16_SameTable ==
  (run = 2 /\ phase = "returned" /\ Concurrent) => df = prev_df

\* C17: without a credential nothing is submitted to a worker, no remote
\* call is issued and no per-item row is produced: the run fails as a whole
\* before the batch starts
C17_FailFast ==
  ~token =>
    /\ futures = <<>>
    /\ rows = <<>>
    /\ phase \in {"init", "failed"}

\* the progress signal in a state: done counts the rows, never exceeds the
\* total, and reaches it when the batch returns; the total is the number of
\* submitted queries
ProgressOk ==
  (Concurrent /\ phase \in {"running", "returned"}) =>
    /\ total = Len(futures)
    /\ done = Len(rows)
    /\ done <= total
    /\ phase = "returned" => done = total

\* one step of a running batch: the total is kept, done is kept or grows by
\* one, and it grows exactly when a row is appended
ProgressStep ==
  (Concurrent /\ phase = "running") =>
    /\ total' = total
    /\ done' = done \/ done' = done + 1
    /\ (done' = done + 1) <=> (Len(rows') = Len(rows) + 1)

\* the completed count starts at 0 when the batch is set up
ProgressStart ==
  (Concurrent /\ phase = "init" /\ phase' = "running") => done' = 0

\* C18: the completed count starts at 0, grows by exactly one per finished
\* item, never exceeds the total, equals it when the batch returns, and the
\* total does not change during the run
C18_Progress == [](ProgressOk) /\ [][ProgressStep /\ ProgressStart]_vars

\* a batch of two returned with the count at the total, one item having failed
C18_Witness ==
  /\ mode = "app" /\ phase = "returned"
  /\ total = 2 /\ done = 2
  /\ \E i \in 1..2 : Failed(futures[i])

\* C19: a batch that has started eventually returns its table, with every
\* submitted query at a terminal outcome and a row for each
C19_Terminates ==
  (phase = "running") ~>
    (/\ phase = "returned"
     /\ \A i \in 1..Len(futures) : futures[i].st = "finished"
     /\ Len(df) = Len(futures))

\* a batch of two with one worker returned, one item failed and one fetched
C19_Witness ==
  /\ phase = "returned" /\ Len(df) = 2 /\ poolsize = 1
  /\ \E i \in 1..2 : Failed(futures[i])
  /\ \E i \in 1..2 : Fetched(futures[i])

\* C20: for the same terms and the same remote answers, every row of the
\* pool run is the row the single-process run through get_artists builds
C20_ModesAgree ==
  mode = "pool" =>
    \A j \in 1..Len(rows) :
      rows[j] = GetArtistsRow(futures[order[j]].name, futures[order[j]])

====
